---- MODULE Spec2Model ----
(***************************************************************************)
(* roadtemp: TempManager (src/src/roadtemp/temp.py), a registry of         *)
(* temporary paths shared by several threads and guarded by one lock.      *)
(*                                                                         *)
(* Every thread runs manager calls one after the other.  A call is split   *)
(* at the points where other threads can interleave: the filesystem call   *)
(* before the lock, the acquisition of the lock, the statements under the  *)
(* lock, its release.  Paths are identified by the uuid4 token of their    *)
(* name (prefix and suffix do not take part in any decision); time is the  *)
(* value datetime.now() returns, in whole ticks.                           *)
(*                                                                         *)
(* Spec is the manager under any scheduling, FairSpec the threads' steps   *)
(* under a fair scheduler, HandleSpec one TempFile or TempDir object used  *)
(* by one thread, with the paths mkstemp / mkdtemp make for it.            *)
(***************************************************************************)
EXTENDS Integers, Sequences, FiniteSets, TLC

\* ------------------------------------------------------------------ bounds
NumThreads == 2
MaxNames == 2
MaxTime == 2
MaxTtl == 1
MaxAgeCfg == 0
MaxPaths == 2
MaxData == 2

Threads == 1..NumThreads
Names == 1..MaxNames

\* Optional[x]: None is the empty sequence, a value v is <<v>>.
None == <<>>
Some(v) == <<v>>

TtlValues == {None} \cup {Some(n) : n \in 0..MaxTtl}
Kinds == {"file", "dir"}

VARIABLES
  auto_cleanup,  \* TempManager.auto_cleanup
  max_age,       \* TempManager.max_age
  files,         \* TempManager._files: the dict, as the sequence of its values in insertion order
  lock,          \* TempManager._lock: 0 when free, else the thread holding it
  fs,            \* the filesystem under base_dir: name -> "none" | "file" | "dir"
  clock,         \* what datetime.now() returns
  names,         \* number of uuid4 tokens drawn so far
  th,            \* per thread: position and the locals of the running call
  registered,    \* history: names ever put in _files
  returned,      \* history: names returned by a create call
  zero_ttl,      \* history: names created with ttl = 0 and not evicted since
  evicted,       \* history: names popped from _files
  total_count,   \* history: sum of the counts returned by cleanup calls
  clean,         \* history: a forced cleanup has finished and nothing was registered since
  handle,        \* a TempFile or TempDir object: its fields and its stream
  disk,          \* the paths that mkstemp / mkdtemp made: what is there and what it holds
  atexit,        \* number of _cleanup hooks registered with atexit
  ret            \* outcome of the last call on the handle

config == <<auto_cleanup, max_age>>
hist == <<registered, returned, zero_ttl, evicted, total_count, clean>>
hvars == <<handle, disk, atexit, ret>>
mvars == <<auto_cleanup, max_age, files, lock, fs, clock, names, th, registered,
           returned, zero_ttl, evicted, total_count, clean>>
vars == <<auto_cleanup, max_age, files, lock, fs, clock, names, th, registered,
          returned, zero_ttl, evicted, total_count, clean, handle, disk, atexit, ret>>

\* ------------------------------------------------------------------ helpers
Range(s) == {s[i] : i \in 1..Len(s)}

\* dict keys of _files
Keys(fl) == {fl[i].path : i \in 1..Len(fl)}

\* _files[key]
Info(fl, key) == CHOOSE e \in Range(fl) : e.path = key

\* TempFileInfo(path=path, created=..., expires=...); auto_delete keeps its default
TempFileInfo(p, c, e) == [path |-> p, created |-> c, expires |-> e, auto_delete |-> TRUE]

\* SetItem that rebuilds the dict around the new entry
SetItemFresh(fl, info) == <<info>>

\* _files[str(path)] = info
SetItem(fl, info) ==
  IF info.path \in Keys(fl)
    THEN [i \in 1..Len(fl) |-> IF fl[i].path = info.path THEN info ELSE fl[i]]
    ELSE Append(fl, info)

\* Pop that empties the dict (_files.clear())
PopClear(fl, key) == <<>>

\* Pop that reads the entry and leaves it in the dict (_files.get(key))
PopKeep(fl, key) == fl

\* what _files.pop(key) leaves in the dict
Pop(fl, key) == SelectSeq(fl, LAMBDA e : e.path # key)

\* expires = datetime.now() + timedelta(seconds=ttl) if ttl else None
ComputeExpires(ttl, t) ==
  IF ttl # None /\ ttl[1] # 0 THEN Some(t + ttl[1]) ELSE None

\* ShouldRemove with should_remove starting at False instead of force
ShouldRemoveNoForce(info, f, t) ==
  LET s2 == info.expires # None /\ t > info.expires[1]
      s3 == IF ~s2 /\ auto_cleanup
              THEN (IF (t - info.created) > max_age THEN TRUE ELSE s2)
              ELSE s2
  IN  s3

\* ShouldRemove with now >= info.expires instead of now > info.expires
ShouldRemoveLoose(info, f, t) ==
  LET s1 == f
      s2 == IF ~s1 /\ info.expires # None /\ t >= info.expires[1] THEN TRUE ELSE s1
      s3 == IF ~s2 /\ auto_cleanup
              THEN (IF (t - info.created) > max_age THEN TRUE ELSE s2)
              ELSE s2
  IN  s3

\* ShouldRemove without the test of self.auto_cleanup
ShouldRemoveNoFlag(info, f, t) ==
  LET s1 == f
      s2 == IF ~s1 /\ info.expires # None /\ t > info.expires[1] THEN TRUE ELSE s1
      s3 == IF ~s2
              THEN (IF (t - info.created) > max_age THEN TRUE ELSE s2)
              ELSE s2
  IN  s3

\* should_remove of one entry, as the loop body computes it
ShouldRemove(info, f, t) ==
  LET s1 == f
      s2 == IF ~s1 /\ info.expires # None /\ t > info.expires[1] THEN TRUE ELSE s1
      s3 == IF ~s2 /\ auto_cleanup
              THEN (IF (t - info.created) > max_age THEN TRUE ELSE s2)
              ELSE s2
  IN  s3

\* to_remove after the first loop
ToRemove(fl, f, t) ==
  LET sel == SelectSeq(fl, LAMBDA e : ShouldRemove(e, f, t))
  IN  [i \in 1..Len(sel) |-> sel[i].path]

\* RemovePath without the except clause: a failed removal leaves the block
RemovePathRaise(k, ok) ==
  IF ok
    THEN [kind |-> "none", inc |-> 1, raise |-> FALSE]
    ELSE [kind |-> k, inc |-> 0, raise |-> TRUE]

\* The try block of the second loop on a path of kind k; ok says whether the
\* filesystem calls went through.  kind: what the path is afterwards, inc: what
\* is added to count, raise: whether an exception leaves the block (never:
\* except Exception catches what the filesystem calls raise, and count += 1
\* follows the if/elif, so it also runs when the path is neither file nor
\* directory).
RemovePath(k, ok) ==
  IF ok
    THEN [kind |-> "none", inc |-> 1, raise |-> FALSE]
    ELSE [kind |-> k, inc |-> 0, raise |-> FALSE]

\* ListValues without list(): the caller gets the view self._files.values()
ListValuesView(fl) == [view |-> TRUE, items |-> <<>>]

\* list(self._files.values()): a new list of the entries the dict holds now
\* (view: the value is a view of the dict; items: the entries of a list)
ListValues(fl) == [view |-> FALSE, items |-> fl]

\* no value
NoResult == [view |-> FALSE, items |-> <<>>]

\* the entries a caller finds now in a value r that list() returned
Contents(r) == IF r.view THEN files ELSE r.items

\* Locals of a thread that runs no call.  The last three fields are history:
\* popped: the keys the running cleanup has popped;
\* second: the running cleanup took the lock while clean;
\* stale: an __exit__ returned while the running create call was under way.
Blank == [pc |-> "idle", op |-> "none", path |-> 0, expires |-> None, force |-> FALSE,
          now |-> 0, to_remove |-> <<>>, count |-> 0, result |-> NoResult, raised |-> "none",
          popped |-> {}, second |-> FALSE, stale |-> FALSE]

InCreate(t) == th[t].pc \in {"cr_acquire", "cr_register", "cr_release"}
InCleanup(t) == th[t].pc \in {"cl_acquire", "cl_select", "cl_pop"}

\* ------------------------------------------------------------------ TempFile / TempDir: values
\* the names mkstemp / mkdtemp can hand out
Paths == 1..MaxPaths

\* what a write() call or a file() / subdir() call adds
Data == {"a", "b"}

\* No handle has been constructed.  kind: "file" for TempFile, "dir" for
\* TempDir; path: _path, 0 for None; file: _file, "none" for None; buffer: what
\* the stream holds and has not put on the disk; scope: "new" before the with
\* statement, "in" inside it, "out" after it, "dead" when the process has ended;
\* written is history: what write() has put in the stream since create().
NoHandle == [kind |-> "none", delete |-> TRUE, text |-> TRUE, path |-> 0, file |-> "none",
             buffer |-> <<>>, written |-> <<>>, scope |-> "new"]

\* a path that was never made
NoPath == [state |-> "never", content |-> <<>>]

\* no call has been made on the handle.  op: the method; n: the int it returned;
\* mode, data: the str or bytes it returned; raised: the exception that left
\* it; swallowed: an except clause caught an exception inside it
NoCall == [op |-> "none", n |-> 0, mode |-> "none", data |-> <<>>, raised |-> "none",
           swallowed |-> FALSE]

\* "" if self.text else b""
Empty(text) == [mode |-> IF text THEN "str" ELSE "bytes", data |-> <<>>]

\* self._path.exists()
Exists(d, pth) == pth # 0 /\ d[pth].state \in {"file", "dir"}

\* the name mkstemp / mkdtemp picks: one that is not in use
FreshPath(d) == CHOOSE pth \in Paths : d[pth].state = "never" /\ \A q \in Paths : q < pth => d[q].state # "never"

\* the stream puts what it holds on the disk (flush); what is written to a
\* file that was unlinked meanwhile never shows under the path
Flush(hd, d) ==
  IF hd.file = "open" /\ Exists(d, hd.path) /\ d[hd.path].state = "file"
    THEN [d EXCEPT ![hd.path].content = @ \o hd.buffer]
    ELSE d

\* Cleanup that does not remove the path
CleanupSkip(hd, d, ok, keep) == [disk |-> d, swallowed |-> FALSE]

\* TempFile._cleanup / TempDir._cleanup: ok says whether unlink / rmtree went
\* through; when rmtree fails the directory is left with its first keep
\* children.  disk: the disk afterwards; swallowed: except Exception caught.
Cleanup(hd, d, ok, keep) ==
  IF Exists(d, hd.path)
    THEN IF ok
           THEN [disk |-> [d EXCEPT ![hd.path] = [state |-> "gone", content |-> <<>>]],
                 swallowed |-> FALSE]
           ELSE [disk |-> IF d[hd.path].state = "dir"
                            THEN [d EXCEPT ![hd.path].content = SubSeq(@, 1, keep)]
                            ELSE d,
                 swallowed |-> TRUE]
    ELSE [disk |-> d, swallowed |-> FALSE]

\* ------------------------------------------------------------------ initial state
Init ==
  /\ auto_cleanup \in BOOLEAN
  /\ max_age \in 0..MaxAgeCfg
  /\ files = <<>>
  /\ lock = 0
  /\ fs = [n \in Names |-> "none"]
  /\ clock = 0
  /\ names = 0
  /\ th = [t \in Threads |-> Blank]
  /\ registered = {}
  /\ returned = {}
  /\ zero_ttl = {}
  /\ evicted = {}
  /\ total_count = 0
  /\ clean = FALSE
  /\ handle = NoHandle
  /\ disk = [pth \in Paths |-> NoPath]
  /\ atexit = 0
  /\ ret = NoCall

\* ------------------------------------------------------------------ the lock
\* LockAcquire that does not wait for the lock to be free
LockAcquireAlways(t) == lock' = t

\* threading.Lock: acquire blocks until the lock is free
LockAcquire(t) == lock = 0 /\ lock' = t

\* LockRelease that leaves the lock with its holder
LockReleaseKeep(t) == lock' = lock

\* leaving a `with self._lock:` block
LockRelease(t) == lock' = 0

\* ------------------------------------------------------------------ create_file / create_dir
CreateOp(k) == IF k = "file" THEN "create_file" ELSE "create_dir"

\* Uuid4 that hands out the same token at every call
Uuid4Same(n) == 1

\* uuid.uuid4().hex when n tokens have been drawn: a token unlike the n before it
Uuid4(n) == n + 1

\* name, path, path.touch() / path.mkdir(parents=True), expires: the filesystem
\* makes the path
CreateTouch(t, k, ttl) ==
  /\ th[t].pc = "idle"
  /\ names < MaxNames
  /\ names' = names + 1
  /\ fs' = [fs EXCEPT ![Uuid4(names)] = k]
  /\ th' = [th EXCEPT ![t] = [Blank EXCEPT !.pc = "cr_acquire", !.op = CreateOp(k),
                                           !.path = Uuid4(names),
                                           !.expires = ComputeExpires(ttl, clock)]]
  /\ zero_ttl' = IF ttl = Some(0) THEN zero_ttl \cup {Uuid4(names)} ELSE zero_ttl
  /\ UNCHANGED <<hvars, config, files, lock, clock, registered, returned, evicted,
                 total_count, clean>>

\* CreateRefused in a create that registers the entry before it makes the path
CreateRefusedRegistered(t, k) ==
  /\ th[t].pc = "idle"
  /\ names < MaxNames
  /\ names' = names + 1
  /\ files' = SetItem(files, TempFileInfo(Uuid4(names), clock, None))
  /\ th' = [th EXCEPT ![t] = [Blank EXCEPT !.pc = "raised", !.op = CreateOp(k),
                                           !.path = Uuid4(names),
                                           !.raised = "OSError"]]
  /\ UNCHANGED <<hvars, config, lock, fs, clock, hist>>

\* path.touch() / path.mkdir(parents=True) raises: the error leaves the call
CreateRefused(t, k) ==
  /\ th[t].pc = "idle"
  /\ names < MaxNames
  /\ names' = names + 1
  /\ th' = [th EXCEPT ![t] = [Blank EXCEPT !.pc = "raised", !.op = CreateOp(k),
                                           !.path = Uuid4(names),
                                           !.raised = "OSError"]]
  /\ UNCHANGED <<hvars, config, files, lock, fs, clock, hist>>

\* with self._lock:
CreateAcquire(t) ==
  /\ th[t].pc = "cr_acquire"
  /\ LockAcquire(t)
  /\ th' = [th EXCEPT ![t].pc = "cr_register"]
  /\ UNCHANGED <<hvars, config, files, fs, clock, names, hist>>

\* self._files[str(path)] = TempFileInfo(path=path, created=datetime.now(), expires=expires)
CreateRegister(t) ==
  /\ th[t].pc = "cr_register"
  /\ files' = SetItem(files, TempFileInfo(th[t].path, clock, th[t].expires))
  /\ th' = [th EXCEPT ![t].pc = "cr_release"]
  /\ registered' = registered \cup {th[t].path}
  /\ clean' = FALSE
  /\ UNCHANGED <<hvars, config, lock, fs, clock, names, returned, zero_ttl, evicted, total_count>>

\* end of the with block; return path
CreateRelease(t) ==
  /\ th[t].pc = "cr_release"
  /\ LockRelease(t)
  /\ th' = [th EXCEPT ![t] = Blank]
  /\ returned' = returned \cup {th[t].path}
  /\ UNCHANGED <<hvars, config, files, fs, clock, names, registered, zero_ttl, evicted,
                 total_count, clean>>

\* ------------------------------------------------------------------ cleanup / __exit__
\* count = 0; now = datetime.now()
CleanupEnter(t, o, f) ==
  /\ th[t].pc = "idle"
  /\ th' = [th EXCEPT ![t] = [Blank EXCEPT !.pc = "cl_acquire", !.op = o, !.force = f,
                                           !.now = clock]]
  /\ UNCHANGED <<hvars, config, files, lock, fs, clock, names, hist>>

\* manager.cleanup(force)
CleanupCall(t, f) == CleanupEnter(t, "cleanup", f)

\* ExitCall that calls self.cleanup() with the default force
ExitCallNoForce(t) == CleanupEnter(t, "exit", FALSE)

\* __exit__: self.cleanup(force=True)
ExitCall(t) == CleanupEnter(t, "exit", TRUE)

\* with self._lock:
CleanupAcquire(t) ==
  /\ th[t].pc = "cl_acquire"
  /\ LockAcquire(t)
  /\ th' = [th EXCEPT ![t].pc = "cl_select", ![t].second = clean /\ th[t].force]
  /\ UNCHANGED <<hvars, config, files, fs, clock, names, hist>>

\* CleanupSelect whose first loop stamps the entries it keeps (info.created = now)
CleanupSelectTouch(t) ==
  /\ th[t].pc = "cl_select"
  /\ th' = [th EXCEPT ![t].pc = "cl_pop",
                      ![t].to_remove = ToRemove(files, th[t].force, th[t].now)]
  /\ files' = [i \in 1..Len(files) |->
                IF ShouldRemove(files[i], th[t].force, th[t].now)
                  THEN files[i]
                  ELSE [files[i] EXCEPT !.created = th[t].now]]
  /\ UNCHANGED <<hvars, config, lock, fs, clock, names, hist>>

\* the first loop: to_remove
CleanupSelect(t) ==
  /\ th[t].pc = "cl_select"
  /\ th' = [th EXCEPT ![t].pc = "cl_pop",
                      ![t].to_remove = ToRemove(files, th[t].force, th[t].now)]
  /\ UNCHANGED <<hvars, config, files, lock, fs, clock, names, hist>>

\* one turn of the second loop: pop the key, try to remove its path
CleanupPop(t, ok) ==
  /\ th[t].pc = "cl_pop"
  /\ th[t].to_remove # <<>>
  /\ LET key == Head(th[t].to_remove)
         r == RemovePath(fs[key], ok)
     IN  IF key \notin Keys(files)
           THEN \* _files.pop(key) raises KeyError, which leaves the with block and the call
                /\ LockRelease(t)
                /\ th' = [th EXCEPT ![t].pc = "raised", ![t].raised = "KeyError"]
                /\ UNCHANGED <<files, fs, evicted, zero_ttl>>
           ELSE /\ files' = Pop(files, key)
                /\ fs' = [fs EXCEPT ![key] = r.kind]
                /\ evicted' = evicted \cup {key}
                /\ zero_ttl' = zero_ttl \ {key}
                /\ IF r.raise
                     THEN /\ LockRelease(t)
                          /\ th' = [th EXCEPT ![t].pc = "raised", ![t].raised = "OSError"]
                     ELSE /\ lock' = lock
                          /\ th' = [th EXCEPT ![t].to_remove = Tail(th[t].to_remove),
                                              ![t].count = th[t].count + r.inc,
                                              ![t].popped = th[t].popped \cup {key}]
  /\ UNCHANGED <<hvars, config, clock, names, registered, returned, total_count, clean>>

\* end of the with block; return count.  When it is __exit__ that returns, the
\* create calls under way are marked.
CleanupRelease(t) ==
  /\ th[t].pc = "cl_pop"
  /\ th[t].to_remove = <<>>
  /\ LockRelease(t)
  /\ th' = [u \in Threads |->
              IF u = t THEN Blank
              ELSE IF th[t].op = "exit" /\ InCreate(u) THEN [th[u] EXCEPT !.stale = TRUE]
              ELSE th[u]]
  /\ total_count' = total_count + th[t].count
  /\ clean' = (th[t].force \/ clean)
  /\ UNCHANGED <<hvars, config, files, fs, clock, names, registered, returned, zero_ttl, evicted>>

\* ------------------------------------------------------------------ list
ListCall(t) ==
  /\ th[t].pc = "idle"
  /\ th' = [th EXCEPT ![t] = [Blank EXCEPT !.pc = "ls_acquire", !.op = "list"]]
  /\ UNCHANGED <<hvars, config, files, lock, fs, clock, names, hist>>

\* with self._lock:
ListAcquire(t) ==
  /\ th[t].pc = "ls_acquire"
  /\ LockAcquire(t)
  /\ th' = [th EXCEPT ![t].pc = "ls_snapshot"]
  /\ UNCHANGED <<hvars, config, files, fs, clock, names, hist>>

\* list(self._files.values()), end of the with block
ListSnapshot(t) ==
  /\ th[t].pc = "ls_snapshot"
  /\ LockRelease(t)
  /\ th' = [th EXCEPT ![t].pc = "ls_return", ![t].result = ListValues(files)]
  /\ UNCHANGED <<hvars, config, files, fs, clock, names, hist>>

\* the caller has the list
ListReturn(t) ==
  /\ th[t].pc = "ls_return"
  /\ th' = [th EXCEPT ![t] = Blank]
  /\ UNCHANGED <<hvars, config, files, lock, fs, clock, names, hist>>

\* ------------------------------------------------------------------ exceptions
\* an exception that left the call reaches the caller
Propagate(t) ==
  /\ th[t].pc = "raised"
  /\ th' = [th EXCEPT ![t] = Blank]
  /\ UNCHANGED <<hvars, config, files, lock, fs, clock, names, hist>>

\* ------------------------------------------------------------------ environment
\* time passes
Tick ==
  /\ clock < MaxTime
  /\ clock' = clock + 1
  /\ UNCHANGED <<hvars, config, files, lock, fs, names, th, hist>>

\* another program removes a path the manager made
ExtRemove(n) ==
  /\ n \in 1..names
  /\ fs[n] # "none"
  /\ fs' = [fs EXCEPT ![n] = "none"]
  /\ UNCHANGED <<hvars, config, files, lock, clock, names, th, hist>>

\* another program replaces a file by a directory or a directory by a file
ExtRetype(n) ==
  /\ n \in 1..names
  /\ fs[n] # "none"
  /\ fs' = [fs EXCEPT ![n] = IF fs[n] = "file" THEN "dir" ELSE "file"]
  /\ UNCHANGED <<hvars, config, files, lock, clock, names, th, hist>>

\* ------------------------------------------------------------------ specification
Next ==
  \/ \E t \in Threads, k \in Kinds, ttl \in TtlValues : CreateTouch(t, k, ttl)
  \/ \E t \in Threads, k \in Kinds : CreateRefused(t, k)
  \/ \E t \in Threads : CreateAcquire(t)
  \/ \E t \in Threads : CreateRegister(t)
  \/ \E t \in Threads : CreateRelease(t)
  \/ \E t \in Threads, f \in BOOLEAN : CleanupCall(t, f)
  \/ \E t \in Threads : ExitCall(t)
  \/ \E t \in Threads : CleanupAcquire(t)
  \/ \E t \in Threads : CleanupSelect(t)
  \/ \E t \in Threads, ok \in BOOLEAN : CleanupPop(t, ok)
  \/ \E t \in Threads : CleanupRelease(t)
  \/ \E t \in Threads : ListCall(t)
  \/ \E t \in Threads : ListAcquire(t)
  \/ \E t \in Threads : ListSnapshot(t)
  \/ \E t \in Threads : ListReturn(t)
  \/ \E t \in Threads : Propagate(t)
  \/ Tick
  \/ \E n \in Names : ExtRemove(n)
  \/ \E n \in Names : ExtRetype(n)

Spec == Init /\ [][Next]_vars

\* ------------------------------------------------------------------ TempFile / TempDir
\* TempFile(delete=dl, text=tx) / TempDir(delete=dl)
Construct(k, dl, tx) ==
  /\ handle.kind = "none"
  /\ k = "dir" => tx
  /\ handle' = [NoHandle EXCEPT !.kind = k, !.delete = dl, !.text = tx]
  /\ UNCHANGED <<mvars, disk, atexit, ret>>

\* the handle can be called
Alive == handle.kind # "none" /\ handle.scope # "dead"

\* create(): mkstemp and os.fdopen, or mkdtemp, then atexit.register when
\* self.delete; the caller is then at position sc.  A stream that the handle
\* held before is dropped and puts what it holds on the disk.
CreateMade(o, sc) ==
  /\ Alive
  /\ \E pth \in Paths : disk[pth].state = "never"
  /\ LET pth == FreshPath(disk)
     IN  /\ disk' = [Flush(handle, disk) EXCEPT ![pth] = [state |-> handle.kind, content |-> <<>>]]
         /\ handle' = [handle EXCEPT !.path = pth,
                                     !.file = IF handle.kind = "file" THEN "open" ELSE "none",
                                     !.buffer = <<>>, !.written = <<>>, !.scope = sc]
  /\ atexit' = IF handle.delete THEN atexit + 1 ELSE atexit
  /\ ret' = [NoCall EXCEPT !.op = o]
  /\ UNCHANGED mvars

\* create(): mkstemp / mkdtemp raises
CreateRaise(o) ==
  /\ Alive
  /\ ret' = [NoCall EXCEPT !.op = o, !.raised = "OSError"]
  /\ UNCHANGED <<mvars, handle, disk, atexit>>

\* handle.create()
Create == CreateMade("create", handle.scope) \/ CreateRaise("create")

\* with handle: __enter__ returns self.create(); when create raises the body
\* of the with statement is not entered
Enter ==
  /\ handle.scope \in {"new", "out"}
  /\ CreateMade("enter", "in") \/ CreateRaise("enter")

\* Write without the test of self._file
WriteUnguarded(x) ==
  /\ Alive
  /\ handle.kind = "file"
  /\ IF handle.file = "open"
       THEN /\ Len(handle.written) < MaxData
            /\ handle' = [handle EXCEPT !.buffer = @ \o <<x>>, !.written = @ \o <<x>>]
            /\ ret' = [NoCall EXCEPT !.op = "write", !.n = 1]
       ELSE /\ handle' = handle
            /\ ret' = [NoCall EXCEPT !.op = "write", !.raised = "AttributeError"]
  /\ UNCHANGED <<mvars, disk, atexit>>

\* TempFile.write(data): one unit x goes into the stream
Write(x) ==
  /\ Alive
  /\ handle.kind = "file"
  /\ IF handle.file = "open"
       THEN /\ Len(handle.written) < MaxData
            /\ handle' = [handle EXCEPT !.buffer = @ \o <<x>>, !.written = @ \o <<x>>]
            /\ ret' = [NoCall EXCEPT !.op = "write", !.n = 1]
       ELSE /\ handle' = handle
            /\ ret' = [NoCall EXCEPT !.op = "write", !.n = 0]
  /\ UNCHANGED <<mvars, disk, atexit>>

\* TempFile.read(): seek(0) puts on the disk what the stream holds, read()
\* returns what the file holds
Read ==
  /\ Alive
  /\ handle.kind = "file"
  /\ IF handle.file = "open"
       THEN /\ disk' = Flush(handle, disk)
            /\ handle' = [handle EXCEPT !.buffer = <<>>]
            /\ ret' = [NoCall EXCEPT !.op = "read",
                                     !.mode = Empty(handle.text).mode,
                                     !.data = handle.written]
       ELSE /\ disk' = disk
            /\ handle' = handle
            /\ ret' = [NoCall EXCEPT !.op = "read",
                                     !.mode = Empty(handle.text).mode,
                                     !.data = Empty(handle.text).data]
  /\ UNCHANGED <<mvars, atexit>>

\* what close() does to the handle
Closed(hd) == IF hd.file = "open" THEN [hd EXCEPT !.file = "none", !.buffer = <<>>] ELSE hd

\* TempFile.close()
Close ==
  /\ Alive
  /\ handle.kind = "file"
  /\ disk' = Flush(handle, disk)
  /\ handle' = Closed(handle)
  /\ ret' = [NoCall EXCEPT !.op = "close"]
  /\ UNCHANGED <<mvars, atexit>>

\* the outcomes of a removal: ok, or a failure that leaves keep children of a
\* directory
Keeps(d, pth) == IF pth # 0 /\ d[pth].state = "dir" THEN 0..Len(d[pth].content) ELSE {0}

\* Exit that calls self._cleanup() whatever self.delete says
ExitAlways(ok, keep) ==
  /\ handle.scope = "in"
  /\ keep \in Keeps(disk, handle.path)
  /\ LET c == Cleanup(handle, Flush(handle, disk), ok, keep)
     IN  /\ disk' = c.disk
         /\ ret' = [NoCall EXCEPT !.op = "exit", !.swallowed = c.swallowed]
  /\ handle' = [Closed(handle) EXCEPT !.scope = "out"]
  /\ UNCHANGED <<mvars, atexit>>

\* __exit__: self.close() (TempFile); if self.delete: self._cleanup()
Exit(ok, keep) ==
  /\ handle.scope = "in"
  /\ keep \in Keeps(disk, handle.path)
  /\ LET d1 == Flush(handle, disk)
         c == IF handle.delete THEN Cleanup(handle, d1, ok, keep)
                               ELSE [disk |-> d1, swallowed |-> FALSE]
     IN  /\ disk' = c.disk
         /\ ret' = [NoCall EXCEPT !.op = "exit", !.swallowed = c.swallowed]
  /\ handle' = [Closed(handle) EXCEPT !.scope = "out"]
  /\ UNCHANGED <<mvars, atexit>>

\* what file(name, content) and subdir(name) leave under the path: mkdir with
\* parents=True makes the directory again when it is gone
WithChild(d, pth, x) ==
  [d EXCEPT ![pth] = [state |-> "dir",
                      content |-> IF x \in Range(@.content) THEN @.content
                                  ELSE @.content \o <<x>>]]

\* TempDir.file(name, content): with content None nothing is made; before
\* create() self._path / name raises
DirFile(x, content) ==
  /\ Alive
  /\ handle.kind = "dir"
  /\ IF handle.path = 0
       THEN /\ disk' = disk
            /\ ret' = [NoCall EXCEPT !.op = "file", !.raised = "TypeError"]
       ELSE /\ Len(disk[handle.path].content) < MaxData
            /\ disk' = IF content THEN WithChild(disk, handle.path, x) ELSE disk
            /\ ret' = [NoCall EXCEPT !.op = "file"]
  /\ UNCHANGED <<mvars, handle, atexit>>

\* TempDir.subdir(name)
DirSubdir(x) ==
  /\ Alive
  /\ handle.kind = "dir"
  /\ IF handle.path = 0
       THEN /\ disk' = disk
            /\ ret' = [NoCall EXCEPT !.op = "subdir", !.raised = "TypeError"]
       ELSE /\ Len(disk[handle.path].content) < MaxData
            /\ disk' = WithChild(disk, handle.path, x)
            /\ ret' = [NoCall EXCEPT !.op = "subdir"]
  /\ UNCHANGED <<mvars, handle, atexit>>

\* TempDir.cleanup(): self._cleanup(), whatever self.delete says
DirCleanup(ok, keep) ==
  /\ Alive
  /\ handle.kind = "dir"
  /\ keep \in Keeps(disk, handle.path)
  /\ LET c == Cleanup(handle, disk, ok, keep)
     IN  /\ disk' = c.disk
         /\ ret' = [NoCall EXCEPT !.op = "cleanup", !.swallowed = c.swallowed]
  /\ UNCHANGED <<mvars, handle, atexit>>

\* The process ends outside the with statement: atexit runs the registered
\* hooks, each is self._cleanup of the same handle and reads the _path of that
\* moment; a stream still open is dropped and puts what it holds on the disk.
AtExit(ok, keep) ==
  /\ Alive
  /\ handle.scope \in {"new", "out"}
  /\ keep \in Keeps(disk, handle.path)
  /\ LET c == IF atexit > 0 THEN Cleanup(handle, disk, ok, keep)
                            ELSE [disk |-> disk, swallowed |-> FALSE]
     IN  /\ disk' = Flush(handle, c.disk)
         /\ ret' = [NoCall EXCEPT !.op = "atexit", !.swallowed = c.swallowed]
  /\ handle' = [Closed(handle) EXCEPT !.scope = "dead"]
  /\ UNCHANGED <<mvars, atexit>>

\* another program removes a path
PathRemoved(pth) ==
  /\ Exists(disk, pth)
  /\ disk' = [disk EXCEPT ![pth] = [state |-> "gone", content |-> <<>>]]
  /\ UNCHANGED <<mvars, handle, atexit, ret>>

HandleNext ==
  \/ \E k \in Kinds, dl \in BOOLEAN, tx \in BOOLEAN : Construct(k, dl, tx)
  \/ Create
  \/ Enter
  \/ \E x \in Data : Write(x)
  \/ Read
  \/ Close
  \/ \E ok \in BOOLEAN, keep \in 0..MaxData : Exit(ok, keep)
  \/ \E x \in Data, content \in BOOLEAN : DirFile(x, content)
  \/ \E x \in Data : DirSubdir(x)
  \/ \E ok \in BOOLEAN, keep \in 0..MaxData : DirCleanup(ok, keep)
  \/ \E ok \in BOOLEAN, keep \in 0..MaxData : AtExit(ok, keep)
  \/ \E pth \in Paths : PathRemoved(pth)

\* one handle and no manager: the manager's variables stay as
\* TempManager() leaves them
HandleInit == Init /\ auto_cleanup

HandleSpec == HandleInit /\ [][HandleNext]_vars

\* ------------------------------------------------------------------ steps
\* thread t takes a step of its cleanup call
CleanupStep(t) == InCleanup(t) /\ th'[t] # th[t]

\* thread t ends the first loop
SelectStep(t) == th[t].pc = "cl_select" /\ th'[t].pc = "cl_pop"

\* thread t takes one turn of the second loop
PopStep(t) == th[t].pc = "cl_pop" /\ th[t].to_remove # <<>> /\ th'[t] # th[t]

\* thread t has ended the second loop and is about to return count
LoopDone(t) == th[t].pc = "cl_pop" /\ th[t].to_remove = <<>>

\* list() is under way in thread t
InList(t) == th[t].pc \in {"ls_acquire", "ls_snapshot", "ls_return"}

\* thread t takes a step of its list call
ListStep(t) == InList(t) /\ th'[t] # th[t]

\* no thread is inside a manager call
AllIdle == \A t \in Threads : th[t].pc = "idle"

\* the three rules of eviction, as the contract states them
Eligible(info, f, t) ==
  \/ f
  \/ (info.expires # None /\ t > info.expires[1])
  \/ (auto_cleanup /\ t - info.created > max_age)

\* ------------------------------------------------------------------ C1
\* C1: when cleanup(force=True) has ended its second loop and is about to
\* return, still holding the lock, the registry is empty, whatever the entries'
\* expires and age and the manager's auto_cleanup and max_age.
C1_ForceEvictsAll ==
  \A t \in Threads :
    (th[t].op = "cleanup" /\ th[t].force /\ LoopDone(t)) => files = <<>>

\* a forced cleanup has evicted two entries that neither rule of time selects
C1_Witness ==
  \E t \in Threads :
    /\ th[t].op = "cleanup" /\ th[t].force /\ LoopDone(t)
    /\ Cardinality(th[t].popped) = 2
    /\ ~auto_cleanup
    /\ th[t].now = 0

\* ------------------------------------------------------------------ C2
\* C2: a turn of the second loop adds one to count exactly when it removed
\* the path from the filesystem: an evicted entry whose path no longer existed
\* is not counted.
C2_CountsOnlyRemovals ==
  [][\A t \in Threads :
       PopStep(t) =>
         LET key == Head(th[t].to_remove)
         IN  (th'[t].count = th[t].count + 1) <=> (fs[key] # "none" /\ fs'[key] = "none")]_vars

\* ------------------------------------------------------------------ C3
\* C3: a cleanup(force=False) whose timestamp is later than the registration
\* of an entry made with ttl = 0 selects that entry.
C3_ZeroTtlExpired ==
  [][\A t \in Threads :
       (SelectStep(t) /\ ~th[t].force) =>
         \A k \in Keys(files) \cap zero_ttl :
           th[t].now > Info(files, k).created => k \in Range(th'[t].to_remove)]_vars

\* ------------------------------------------------------------------ C4
\* While the second loop runs, the keys still to pop are tracked and eligible,
\* and every tracked entry that is eligible is still to pop.
C4_Selected ==
  \A t \in Threads :
    th[t].pc = "cl_pop" =>
      /\ \A k \in Range(th[t].to_remove) :
           k \in Keys(files) /\ Eligible(Info(files, k), th[t].force, th[t].now)
      /\ \A i \in 1..Len(files) :
           Eligible(files[i], th[t].force, th[t].now)
             => files[i].path \in Range(th[t].to_remove)

\* The first loop selects the eligible entries and no other; a turn of the
\* second loop takes the selected key out of the registry, leaves every other
\* entry as it was and touches no other path; no other step of cleanup changes
\* the registry or the filesystem.
C4_Step(t) ==
  /\ SelectStep(t) =>
       \A i \in 1..Len(files) :
         (files[i].path \in Range(th'[t].to_remove))
           <=> Eligible(files[i], th[t].force, th[t].now)
  /\ PopStep(t) =>
       LET key == Head(th[t].to_remove)
       IN  /\ files' = SelectSeq(files, LAMBDA e : e.path # key)
           /\ \A n \in Names \ {key} : fs'[n] = fs[n]
  /\ (CleanupStep(t) /\ ~PopStep(t)) => (files' = files /\ fs' = fs)

\* C4: a cleanup call evicts an entry if and only if force is true, or expires
\* is set and now > expires, or auto_cleanup is on and now - created > max_age;
\* every other entry stays in the registry and its path is not touched.
C4_EvictedIffEligible ==
  [](C4_Selected) /\ [][\A t \in Threads : C4_Step(t)]_vars

\* a cleanup(force=False) has evicted one entry and left another
C4_Witness ==
  \E t \in Threads :
    /\ th[t].op = "cleanup" /\ ~th[t].force /\ LoopDone(t)
    /\ th[t].popped # {}
    /\ files # <<>>

\* ------------------------------------------------------------------ C5
\* C5: with auto_cleanup off, no step of a cleanup(force=False) takes an entry
\* without expires out of the registry or changes its path, whatever the time.
C5_NoTtlKept ==
  [][\A t \in Threads :
       (~auto_cleanup /\ CleanupStep(t) /\ ~th[t].force) =>
         \A i \in 1..Len(files) :
           files[i].expires = None =>
             /\ files[i] \in Range(files')
             /\ fs'[files[i].path] = fs[files[i].path]]_vars

\* auto_cleanup is off, a cleanup(force=False) with timestamp MaxTime has ended
\* its loops and an entry without expires made at time 0 is still tracked, its
\* file in place
C5_Witness ==
  \E t \in Threads :
    /\ ~auto_cleanup
    /\ th[t].op = "cleanup" /\ ~th[t].force /\ LoopDone(t)
    /\ th[t].now = MaxTime
    /\ \E i \in 1..Len(files) :
         /\ files[i].expires = None
         /\ files[i].created = 0
         /\ fs[files[i].path] = "file"

\* ------------------------------------------------------------------ C6
\* thread t takes a turn of the second loop in which the removal fails
FailStep(t) ==
  PopStep(t) /\ Head(th[t].to_remove) \in Keys(files) /\ th'[t].count = th[t].count

\* no cleanup call raises; an evicted key is neither tracked nor selected again
C6_NoRetry ==
  /\ \A t \in Threads : th[t].op \in {"cleanup", "exit"} => th[t].raised = "none"
  /\ evicted \cap Keys(files) = {}
  /\ \A t \in Threads : Range(th[t].to_remove) \cap evicted = {}

\* after a failed removal the key is out of the registry, the call goes on
\* with the rest of to_remove under the lock, and only an empty to_remove ends
\* the second loop
C6_Step(t) ==
  /\ FailStep(t) =>
       /\ Head(th[t].to_remove) \notin Keys(files')
       /\ th'[t].pc = "cl_pop"
       /\ th'[t].raised = "none"
       /\ th'[t].to_remove = Tail(th[t].to_remove)
       /\ lock' = t
  /\ (th[t].pc = "cl_pop" /\ th'[t].pc # "cl_pop") =>
       (th[t].to_remove = <<>> /\ th'[t].pc = "idle")

\* C6: when the removal of an eligible entry fails, cleanup does not raise, the
\* entry is evicted all the same, the other eligible entries of the pass are
\* still processed, and no later cleanup selects the evicted key again.
C6_FailedRemovalContained ==
  [](C6_NoRetry) /\ [][\A t \in Threads : C6_Step(t)]_vars

\* a pass has popped two keys, one removal failed (its path is still there)
\* and the other was counted
C6_Witness ==
  \E t \in Threads :
    /\ LoopDone(t)
    /\ Cardinality(th[t].popped) = 2
    /\ th[t].count = 1
    /\ \E k \in th[t].popped : fs[k] # "none"

\* ------------------------------------------------------------------ C7
\* C7: a cleanup(force=True) or __exit__ that takes the lock after a forced
\* cleanup has finished, with no entry registered in between, finds the registry
\* empty, selects and pops nothing, counts 0 and raises nothing.
C7_SecondForceIsNoOp ==
  \A t \in Threads :
    th[t].second =>
      /\ th[t].pc \in {"cl_select", "cl_pop"}
      /\ files = <<>>
      /\ th[t].to_remove = <<>>
      /\ th[t].popped = {}
      /\ th[t].count = 0
      /\ th[t].raised = "none"

\* the second forced cleanup is about to return after a first one that
\* removed something
C7_Witness ==
  \E t \in Threads :
    /\ th[t].second
    /\ LoopDone(t)
    /\ total_count > 0

\* ------------------------------------------------------------------ C8
\* C8 as claimed: a create call that was under way when __exit__ returned
\* leaves no entry in the registry.
C8_NothingSurvivesExit ==
  \A t \in Threads : th[t].stale => th[t].path \notin Keys(files)

\* C8 as amended: when the cleanup of __exit__ has ended its second loop, the
\* lock still held, the registry is empty: every entry tracked when teardown
\* took the lock is evicted.
C8_ExitEvictsTracked ==
  \A t \in Threads : (th[t].op = "exit" /\ LoopDone(t)) => files = <<>>

\* __exit__ has evicted an entry while a create call of another thread waits
\* for the lock
C8_Witness ==
  \E t \in Threads, u \in Threads :
    /\ th[t].op = "exit" /\ LoopDone(t)
    /\ th[t].popped # {}
    /\ th[u].pc = "cr_acquire"

\* ------------------------------------------------------------------ C9
\* C9: the list a list() call takes under the lock holds every path a create
\* call has returned so far, but for the paths a cleanup has popped.
C9_ListSeesReturned ==
  [][\A t \in Threads :
       (th[t].pc = "ls_snapshot" /\ th'[t].pc = "ls_return") =>
         \A p \in returned : p \in Keys(Contents(th[t].result)') \/ p \in evicted]_vars

\* a list() holds the two paths that create calls have returned
C9_Witness ==
  \E t \in Threads :
    /\ th[t].pc = "ls_return"
    /\ Cardinality(returned) = 2
    /\ Keys(Contents(th[t].result)) = returned

\* ------------------------------------------------------------------ C10
\* sum of the counts of the cleanup calls under way
RECURSIVE CountsUnderWay(_)
CountsUnderWay(S) ==
  IF S = {} THEN 0
  ELSE LET t == CHOOSE x \in S : TRUE
       IN  th[t].count + CountsUnderWay(S \ {t})

\* C10: no cleanup raises KeyError; two cleanup calls never hold the same key,
\* selected or popped; no selected key was popped before; and the counts
\* returned and under way never add up to more than the entries registered.
C10_EvictionAtomic ==
  /\ \A t \in Threads : th[t].raised # "KeyError"
  /\ \A t \in Threads, u \in Threads :
       t # u =>
         (Range(th[t].to_remove) \cup th[t].popped)
           \cap (Range(th[u].to_remove) \cup th[u].popped) = {}
  /\ \A t \in Threads : Range(th[t].to_remove) \subseteq Keys(files) \ evicted
  /\ total_count + CountsUnderWay(Threads) <= Cardinality(registered)

\* a cleanup is in its second loop, one key popped and one to go, while
\* another cleanup call waits for the lock
C10_Witness ==
  \E t \in Threads, u \in Threads :
    /\ t # u
    /\ th[t].pc = "cl_pop" /\ th[t].popped # {} /\ th[t].to_remove # <<>>
    /\ th[u].pc = "cl_acquire"

\* ------------------------------------------------------------------ C11
\* C11: a path that a cleanup has popped from the registry is never a key of the
\* registry again, whatever create_file, create_dir, cleanup and list calls
\* follow: the set of evicted paths only grows and none of them is tracked.
C11_EvictedNeverBack ==
  /\ [](\A n \in evicted : n \notin Keys(files))
  /\ [][evicted \subseteq evicted' /\ \A n \in evicted : n \notin Keys(files')]_vars

\* one path has been evicted and a path created afterwards is tracked
C11_Witness ==
  /\ evicted = {1}
  /\ Keys(files) = {2}
  /\ returned = {1, 2}

\* ------------------------------------------------------------------ C12
\* C12: the registry holds one entry for each path that was registered and that
\* no cleanup has evicted, and nothing else; no path is the key of two entries;
\* when no call is under way the registered paths are the paths that create_file
\* and create_dir have returned; no step of cleanup or of list adds a key; and a
\* cleanup counts no more paths than it has popped.
C12_RegistryIsReturnedMinusEvicted ==
  /\ [](/\ Len(files) = Cardinality(Keys(files))
        /\ Keys(files) = registered \ evicted
        /\ returned \subseteq registered
        /\ (AllIdle => registered = returned)
        /\ \A t \in Threads : InCleanup(t) => th[t].count <= Cardinality(th[t].popped))
  /\ [][\A t \in Threads :
          (CleanupStep(t) \/ ListStep(t)) => Keys(files') \subseteq Keys(files)]_vars

\* a create_file and a create_dir have returned, a list() holds their two
\* entries, and a cleanup(force=True) that followed is about to return 2 with
\* the registry empty
C12_Witness ==
  \E t, u \in Threads :
    /\ th[u].pc = "ls_return"
    /\ Len(Contents(th[u].result)) = 2
    /\ LoopDone(t)
    /\ th[t].force
    /\ th[t].count = 2
    /\ th[t].popped = returned
    /\ files = <<>>

\* ------------------------------------------------------------------ C13
\* thread t builds the value list() returns
SnapshotStep(t) == th[t].pc = "ls_snapshot" /\ th'[t].pc = "ls_return"

\* C13: the value list() returns holds the entries of the registry at the moment
\* it is built, in the order of the registry; as long as the caller holds it, no
\* step of any thread (create_file, create_dir, cleanup, list, the clock, other
\* programs) changes the entries found in it; and no step of list() changes the
\* registry.
C13_ListIsSnapshot ==
  [][\A t \in Threads :
       /\ SnapshotStep(t) => Contents(th[t].result)' = files
       /\ (th[t].pc = "ls_return" /\ th'[t].pc = "ls_return") =>
             Contents(th[t].result)' = Contents(th[t].result)
       /\ ListStep(t) => files' = files]_vars

\* a caller holds a list of two entries while the registry has been emptied
C13_Witness ==
  \E t \in Threads :
    /\ th[t].pc = "ls_return"
    /\ Len(Contents(th[t].result)) = 2
    /\ files = <<>>
    /\ Cardinality(evicted) = 2

\* ------------------------------------------------------------------ C17
\* path.touch() / path.mkdir() raises in thread t
RefuseStep(t) == th[t].pc = "idle" /\ th'[t].pc = "raised"

\* the error of a refused creation is on its way to the caller of thread t
Refused(t) == th[t].pc = "raised" /\ th[t].op \in {"create_file", "create_dir"}

\* C17: when the filesystem refuses the path of a create_file or create_dir,
\* the call ends with that error and without the lock; the step of the refusal
\* and the step that hands the error to the caller leave the registry as it was,
\* entry by entry; and the refused path is not on the filesystem, is no key of
\* the registry and was never registered.
C17_RefusedCreateLeavesRegistry ==
  /\ [](\A t \in Threads :
          Refused(t) => /\ th[t].raised = "OSError"
                        /\ lock # t
                        /\ fs[th[t].path] = "none"
                        /\ th[t].path \notin Keys(files)
                        /\ th[t].path \notin registered \cup returned)
  /\ [][\A t \in Threads :
          /\ RefuseStep(t) => Refused(t)' /\ files' = files
          /\ (Refused(t) /\ th'[t] # th[t]) => th'[t] = Blank /\ files' = files]_vars

\* a creation is refused while the registry tracks an entry
C17_Witness ==
  \E t \in Threads :
    /\ Refused(t)
    /\ Len(files) = 1
    /\ th[t].path = 2

\* ------------------------------------------------------------------ C18
\* thread t registers its entry
RegisterStep(t) == th[t].pc = "cr_register" /\ th'[t].pc = "cr_release"

\* C18: a step that registers an entry sets its created to the time of the step
\* and its expires to the value computed from ttl; no step changes a field of an
\* entry that stays tracked; no step changes max_age or auto_cleanup; time does
\* not go back; hence an entry that the expires rule or the max-age rule selects
\* at one time and that stays tracked is selected at every later time.
C18_EntriesAndConfigFixed ==
  [][/\ \A t \in Threads :
          RegisterStep(t) =>
            Info(files', th[t].path) = TempFileInfo(th[t].path, clock, th[t].expires)
     /\ \A e \in Range(files) :
          e.path \in Keys(files') =>
            /\ Info(files', e.path) = e
            /\ Eligible(e, FALSE, clock) => Eligible(Info(files, e.path), FALSE, clock)'
     /\ max_age' = max_age
     /\ auto_cleanup' = auto_cleanup
     /\ clock' >= clock]_vars

\* after one eviction, an entry registered at time 0 whose expires is behind is
\* still tracked when the clock has reached its last value
C18_Witness ==
  \E e \in Range(files) :
    /\ e.created = 0
    /\ e.expires # None
    /\ clock > e.expires[1]
    /\ clock = MaxTime
    /\ evicted # {}

\* ------------------------------------------------------------------ C14
\* the with statement of the handle ends
ExitStep == handle.scope = "in" /\ handle'.scope = "out"

HandleStep == ret' # ret \/ handle' # handle

\* The statement as given, last part: once a handle with delete=False has left
\* its scope, no step of the handle removes its path.
C15_NoHandleStepRemoves ==
  [][(handle.kind # "none" /\ ~handle.delete /\ handle.scope = "out" /\ HandleStep
        /\ Exists(disk, handle.path)) =>
       Exists(disk', handle.path)]_vars

\* C15: for a handle with delete=False no atexit hook is registered; scope exit
\* raises nothing and leaves a TempFile's path with all that was written
\* through the handle, and the disk of a TempDir as it was; and no step of the
\* handle other than an explicit TempDir.cleanup() removes the path: not scope
\* exit, not the end of the process.
C15_PersistentPathStays ==
  [][(handle.kind # "none" /\ ~handle.delete) =>
       /\ atexit' = 0
       /\ ExitStep =>
            /\ ret'.raised = "none"
            /\ IF handle.kind = "file" /\ Exists(disk, handle.path)
                 THEN /\ Exists(disk', handle.path)
                      /\ disk'[handle.path].content = handle.written
                      /\ \A pth \in Paths \ {handle.path} : disk'[pth] = disk[pth]
                 ELSE disk' = disk
       /\ (HandleStep /\ ret'.op # "cleanup" /\ Exists(disk, handle.path)) =>
            Exists(disk', handle.path)]_vars

\* the process has ended after the scope of a TempFile with delete=False, and
\* the file is there with the two units written through the handle
C15_Witness ==
  /\ handle.kind = "file"
  /\ ~handle.delete
  /\ handle.scope = "dead"
  /\ ret.op = "atexit"
  /\ Exists(disk, handle.path)
  /\ Len(disk[handle.path].content) = 2
  /\ disk[handle.path].content = handle.written

\* ------------------------------------------------------------------ C16
\* the TempFile is uncreated or closed
Inactive == handle.kind = "file" /\ handle.file = "none"

\* method o of the handle takes a step
CallStep(o) == ret'.op = o /\ HandleStep

\* C16: on a TempFile that is uncreated or closed, write() returns 0, read()
\* returns "" in text mode and b"" in binary mode, close() returns; none of the
\* three raises, changes the disk or changes the handle; and after any close()
\* the handle has no stream.
C16_InactiveHandleCalls ==
  [][/\ Inactive =>
          /\ CallStep("write") => ret'.n = 0
          /\ CallStep("read") => ret'.data = <<>> /\
                                  ret'.mode = (IF handle.text THEN "str" ELSE "bytes")
          /\ (CallStep("write") \/ CallStep("read") \/ CallStep("close")) =>
                ret'.raised = "none" /\ disk' = disk /\ handle' = handle
     /\ CallStep("close") => handle'.file = "none" /\ ret'.raised = "none"]_vars

\* inside its scope a TempFile that was written to and closed answers 0 to write()
C16_Witness ==
  /\ Inactive
  /\ handle.scope = "in"
  /\ handle.path # 0
  /\ Len(handle.written) = 1
  /\ ret.op = "write"
  /\ ret.n = 0

\* ------------------------------------------------------------------ C19
\* the steps of thread t that wait for nothing: statements under the lock, the
\* release of the lock, the return of a value or of an exception
Running(t) ==
  \/ CreateRegister(t)
  \/ CreateRelease(t)
  \/ CleanupSelect(t)
  \/ \E ok \in BOOLEAN : CleanupPop(t, ok)
  \/ CleanupRelease(t)
  \/ ListSnapshot(t)
  \/ ListReturn(t)
  \/ Propagate(t)

\* the steps of thread t that wait for the lock
Acquire(t) == CreateAcquire(t) \/ CleanupAcquire(t) \/ ListAcquire(t)

\* the steps of the threads
CallNext ==
  \/ \E t \in Threads, k \in Kinds, ttl \in TtlValues : CreateTouch(t, k, ttl)
  \/ \E t \in Threads, k \in Kinds : CreateRefused(t, k)
  \/ \E t \in Threads, f \in BOOLEAN : CleanupCall(t, f)
  \/ \E t \in Threads : ExitCall(t)
  \/ \E t \in Threads : ListCall(t)
  \/ \E t \in Threads : Acquire(t)
  \/ \E t \in Threads : Running(t)

\* Fair scheduling: a thread that can run does run, and a thread that waits for
\* a lock that is free again and again gets it.  Filesystem calls end (every
\* step that makes one is a single step).
FairSpec ==
  /\ Init
  /\ [][CallNext]_vars
  /\ \A t \in Threads : WF_vars(Running(t)) /\ SF_vars(Acquire(t))

\* thread t is inside the with self._lock block of its call
UnderLock(t) == th[t].pc \in {"cr_register", "cr_release", "cl_select", "cl_pop", "ls_snapshot"}

====
